---- MODULE Spec2Model ----
(***************************************************************************)
(* Model of src/server.py, the Dify database search MCP server:            *)
(*   - the process-wide asyncpg pool (get_pool / close_pool) shared by the *)
(*     tool invocations running on one asyncio event loop,                 *)
(*   - the API key middleware,                                             *)
(*   - the workflow queries and the graph scanning of the two workflow     *)
(*     search tools,                                                       *)
(*   - the row normaliser _format_rows.                                    *)
(* Each part has its own specification over its own variables; the other   *)
(* variables stay at their initial value.                                  *)
(***************************************************************************)
EXTENDS Integers, Sequences, FiniteSets, TLC

VARIABLES
    _pool,        \* the module global _pool: 0 is None, else a pool id
    poolState,    \* pool id -> "absent" | "open" | "closing" | "closed"
    pc,           \* task -> position of the tool invocation
    local,        \* task -> the pool get_pool returned to it (0: none yet)
    conn,         \* task -> pool whose connection the task holds (0: none)
    fetches,      \* task -> conn.fetch calls still to run in its query block
    closer,       \* close_pool: "idle" | "closing"
    closeTarget,  \* the pool close_pool is awaiting the close of (0: none)
    closes,       \* number of close_pool calls started
    api_key,      \* APIKeyAuthMiddleware.api_key (MCP_API_KEY, "" when unset)
    scope,        \* the ASGI scope of the request the middleware is called on
    authPc,       \* "request" before __call__ ran, "done" after
    forwarded,    \* whether self.app(scope, receive, send) was awaited
    response,     \* "none" | "401" | "UnicodeDecodeError"
    rows,         \* the rows conn.fetch returned to a workflow search tool
    keyword,      \* the tool's keyword argument
    gphase,       \* <<"fetch", tool>>, then <<"done", tool>>: "plugin" | "llm"
    out,          \* the call's outcome: [status, results]
    workflows,    \* the workflows table: a sequence of rows
    qkeyword,     \* the keyword of the workflow query
    qphase,       \* "table", then the tool whose query ran
    qrows,        \* the rows the query returned
    frows,        \* _format_rows: the records passed in
    columns,      \* _format_rows: the column projection
    fphase,       \* "call", then "done"
    formatted     \* _format_rows: the list returned

poolVars == <<_pool, poolState, pc, local, conn, fetches, closer,
              closeTarget, closes>>

authVars == <<api_key, scope, authPc, forwarded, response>>

graphVars == <<rows, keyword, gphase, out>>

queryVars == <<workflows, qkeyword, qphase, qrows>>

fmtVars == <<frows, columns, fphase, formatted>>

vars == <<poolVars, authVars, graphVars, queryVars, fmtVars>>

notPool == <<authVars, graphVars, queryVars, fmtVars>>
notAuth == <<poolVars, graphVars, queryVars, fmtVars>>
notGraph == <<poolVars, authVars, queryVars, fmtVars>>
notQuery == <<poolVars, authVars, graphVars, fmtVars>>
notFmt == <<poolVars, authVars, graphVars, queryVars>>

(***************************************************************************)
(* Bounds and program constants                                            *)
(***************************************************************************)
NTasks == 6
MaxPools == 2
MaxCloses == 1
MaxHeaders == 2
MaxRows == 2
MaxNodes == 2
MaxWorkflows == 3
Limit == 50
max_size == 5

Tasks == 1..NTasks
PoolIds == 1..MaxPools

(***************************************************************************)
(* Connection lifecycle: get_pool, close_pool and the tools' query blocks  *)
(***************************************************************************)

\* The tool a task runs; the three tools differ here in the number of
\* conn.fetch calls inside the "async with pool.acquire()" block.
ToolOf(t) ==
    CASE t % 3 = 1 -> "search_dify_credentials"
      [] t % 3 = 2 -> "search_workflows_by_plugin"
      [] OTHER     -> "search_workflows_by_llm"

NFetches(tool) == IF tool = "search_dify_credentials" THEN 3 ELSE 1

HeldIn(p) == Cardinality({t \in Tasks : conn[t] = p})
TotalHeld == Cardinality({t \in Tasks : conn[t] # 0})
Creating == {t \in Tasks : pc[t] = "creating"}
CreatedPools == {p \in PoolIds : poolState[p] # "absent"}
FreshPool == CHOOSE p \in PoolIds : poolState[p] = "absent"
                 /\ \A q \in PoolIds : poolState[q] = "absent" => p <= q

\* Tasks are numbered in the order in which the event loop first runs them.
Arrived(t) == IF t = 1 THEN TRUE ELSE pc[t - 1] # "start"

PoolInit ==
    /\ _pool = 0
    /\ poolState = [p \in PoolIds |-> "absent"]
    /\ pc = [t \in Tasks |-> "start"]
    /\ local = [t \in Tasks |-> 0]
    /\ conn = [t \in Tasks |-> 0]
    /\ fetches = [t \in Tasks |-> 0]
    /\ closer = "idle"
    /\ closeTarget = 0
    /\ closes = 0

\* get_pool, _pool is not None: returns _pool without suspending; the caller
\* goes on into pool.acquire(), which refuses a closing or closed pool before
\* it can suspend.
GetPoolCached(t) ==
    /\ pc[t] = "start"
    /\ Arrived(t)
    /\ _pool # 0
    /\ IF poolState[_pool] = "open"
          THEN /\ local' = [local EXCEPT ![t] = _pool]
               /\ pc' = [pc EXCEPT ![t] = "acquire"]
          ELSE /\ local' = [local EXCEPT ![t] = 0]
               /\ pc' = [pc EXCEPT ![t] = "raised"]
    /\ UNCHANGED <<_pool, poolState, conn, fetches, closer,
                   closeTarget, closes>>
    /\ UNCHANGED notPool

\* get_pool, _pool is None: calls asyncpg.create_pool and suspends on it.
GetPoolCreate(t) ==
    /\ pc[t] = "start"
    /\ Arrived(t)
    /\ _pool = 0
    /\ Cardinality(Creating) + Cardinality(CreatedPools) < MaxPools
    /\ pc' = [pc EXCEPT ![t] = "creating"]
    /\ UNCHANGED <<_pool, poolState, local, conn, fetches, closer,
                   closeTarget, closes>>
    /\ UNCHANGED notPool

\* create_pool returns: the new pool is stored in _pool and returned.
CreatePoolDone(t) ==
    /\ pc[t] = "creating"
    /\ LET p == FreshPool IN
        /\ poolState' = [poolState EXCEPT ![p] = "open"]
        /\ _pool' = p
        /\ local' = [local EXCEPT ![t] = p]
    /\ pc' = [pc EXCEPT ![t] = "acquire"]
    /\ UNCHANGED <<conn, fetches, closer, closeTarget, closes>>
    /\ UNCHANGED notPool

\* create_pool raises (the database cannot be reached): the tool call fails.
CreatePoolFail(t) ==
    /\ pc[t] = "creating"
    /\ pc' = [pc EXCEPT ![t] = "raised"]
    /\ UNCHANGED <<_pool, poolState, local, conn, fetches, closer,
                   closeTarget, closes>>
    /\ UNCHANGED notPool

\* async with pool.acquire(): takes an idle connection, or opens one while
\* the pool has fewer than max_size; otherwise the caller stays suspended.
Acquire(t) ==
    /\ pc[t] = "acquire"
    /\ poolState[local[t]] = "open"
    /\ HeldIn(local[t]) < max_size
    /\ conn' = [conn EXCEPT ![t] = local[t]]
    /\ fetches' = [fetches EXCEPT ![t] = NFetches(ToolOf(t))]
    /\ pc' = [pc EXCEPT ![t] = "query"]
    /\ UNCHANGED <<_pool, poolState, local, closer, closeTarget, closes>>
    /\ UNCHANGED notPool

\* A caller still waiting for a connection when its pool is closed fails.
AcquireClosed(t) ==
    /\ pc[t] = "acquire"
    /\ poolState[local[t]] # "open"
    /\ pc' = [pc EXCEPT ![t] = "raised"]
    /\ local' = [local EXCEPT ![t] = 0]
    /\ UNCHANGED <<_pool, poolState, conn, fetches, closer,
                   closeTarget, closes>>
    /\ UNCHANGED notPool

\* await conn.fetch(...) returns; after the last one the block is left and
\* the connection released.
Fetch(t) ==
    /\ pc[t] = "query"
    /\ fetches' = [fetches EXCEPT ![t] = @ - 1]
    /\ IF fetches[t] = 1
          THEN /\ conn' = [conn EXCEPT ![t] = 0]
               /\ local' = [local EXCEPT ![t] = 0]
               /\ pc' = [pc EXCEPT ![t] = "done"]
          ELSE UNCHANGED <<conn, local, pc>>
    /\ UNCHANGED <<_pool, poolState, closer, closeTarget, closes>>
    /\ UNCHANGED notPool

\* await conn.fetch(...) raises: the block's exit releases the connection
\* and the error fails the tool call.
FetchFail(t) ==
    /\ pc[t] = "query"
    /\ conn' = [conn EXCEPT ![t] = 0]
    /\ fetches' = [fetches EXCEPT ![t] = 0]
    /\ local' = [local EXCEPT ![t] = 0]
    /\ pc' = [pc EXCEPT ![t] = "raised"]
    /\ UNCHANGED <<_pool, poolState, closer, closeTarget, closes>>
    /\ UNCHANGED notPool

\* close_pool (server_lifespan exit), up to its await: nothing to do when
\* _pool is None, else _pool.close() starts and close_pool suspends on it.
CloseStart ==
    /\ closer = "idle"
    /\ closes < MaxCloses
    /\ closes' = closes + 1
    /\ IF _pool = 0
          THEN UNCHANGED <<poolState, closer, closeTarget>>
          ELSE /\ poolState' = [poolState EXCEPT ![_pool] = "closing"]
               /\ closeTarget' = _pool
               /\ closer' = "closing"
    /\ UNCHANGED <<_pool, pc, local, conn, fetches>>
    /\ UNCHANGED notPool

\* _pool.close() returns once every connection of that pool was released
\* and closed; close_pool then stores None in _pool.
CloseFinish ==
    /\ closer = "closing"
    /\ HeldIn(closeTarget) = 0
    /\ poolState' = [poolState EXCEPT ![closeTarget] = "closed"]
    /\ _pool' = 0
    /\ closer' = "idle"
    /\ closeTarget' = 0
    /\ UNCHANGED <<pc, local, conn, fetches, closes>>
    /\ UNCHANGED notPool

PoolNext ==
    \/ \E t \in Tasks : GetPoolCached(t)
    \/ \E t \in Tasks : GetPoolCreate(t)
    \/ \E t \in Tasks : CreatePoolDone(t)
    \/ \E t \in Tasks : CreatePoolFail(t)
    \/ \E t \in Tasks : Acquire(t)
    \/ \E t \in Tasks : AcquireClosed(t)
    \/ \E t \in Tasks : Fetch(t)
    \/ \E t \in Tasks : FetchFail(t)
    \/ CloseStart
    \/ CloseFinish

\* The claims about the pool, over every interleaving of the steps above.

\* C1: while the pool was never torn down, create_pool calls in flight plus
\* pools created number at most one, and all callers hold the same pool.
C1_SinglePool ==
    closes = 0 =>
        /\ Cardinality(Creating) + Cardinality(CreatedPools) <= 1
        /\ \A t, u \in Tasks :
              local[t] # 0 /\ local[u] # 0 => local[t] = local[u]

\* C2: when close_pool completes, every pool ever created is closed and
\* _pool is None; and get_pool never returns a pool that teardown is closing
\* or has closed.
C2_TeardownStep ==
    /\ (closes' = closes + 1 /\ closer' = "idle") \/
       (closer = "closing" /\ closer' = "idle")
         => /\ _pool' = 0
            /\ \A p \in PoolIds : poolState'[p] \in {"absent", "closed"}
    /\ \A t \in Tasks :
         pc[t] = "start" /\ pc'[t] # "start" /\ _pool # 0
             => poolState[_pool] = "open"

C2_Teardown == [][C2_TeardownStep]_vars

\* C3: at most max_size connections are held at any time, and none is held
\* once every invocation has finished.
C3_BoundedRelease ==
    /\ TotalHeld <= max_size
    /\ (\A t \in Tasks : pc[t] \in {"done", "raised"}) => TotalHeld = 0

(***************************************************************************)
(* Strings are sequences of one-character strings; bytes are integers.     *)
(***************************************************************************)

\* str.encode() over the characters the model uses (their ASCII codes).
Ord(c) ==
    CASE c = " " -> 32 [] c = "B" -> 66 [] c = "a" -> 97 [] c = "b" -> 98
      [] c = "e" -> 101 [] c = "k" -> 107 [] c = "r" -> 114 [] c = "x" -> 120

AsciiChars == {" ", "B", "a", "b", "e", "k", "r", "x"}
Chr(n) == CHOOSE c \in AsciiChars : Ord(c) = n
Encode(s) == [i \in 1..Len(s) |-> Ord(s[i])]

\* bytes.decode(): UTF-8, errors="strict". Over the model's bytes (ASCII
\* codes and 255, a byte no UTF-8 text holds) it raises UnicodeDecodeError
\* exactly when a byte of 128 or more occurs.
DecodeRaises(bs) == \E i \in 1..Len(bs) : bs[i] >= 128
Decode(bs) == [i \in 1..Len(bs) |-> Chr(bs[i])]


(***************************************************************************)
(* Python values: a decoded JSON value or a column value is a record       *)
(* tagged with its type. A dict is its sequence of <<key, value>> items    *)
(* in insertion order, keys unique.                                        *)
(***************************************************************************)
JNull == [t |-> "null"]
JStr(s) == [t |-> "str", v |-> s]
JNum(n) == [t |-> "num", v |-> n]
JList(xs) == [t |-> "list", v |-> xs]
JMap(kvs) == [t |-> "map", v |-> kvs]
EmptyStr == JStr(<<>>)
EmptyMap == JMap(<<>>)

\* d.get(k, default) on a dict d
DictGet(d, k, default) ==
    LET idx == {i \in 1..Len(d.v) : d.v[i][1] = k}
    IN IF idx = {} THEN default ELSE d.v[CHOOSE i \in idx : TRUE][2]

\* d[k] = val on a dict's item sequence: an existing key keeps its place.
DictSet(kvs, k, val) ==
    IF \E i \in 1..Len(kvs) : kvs[i][1] = k
       THEN [i \in 1..Len(kvs) |->
                IF kvs[i][1] = k THEN <<k, val>> ELSE kvs[i]]
       ELSE Append(kvs, <<k, val>>)

\* str.lower() over the characters the model uses
Lower(c) ==
    CASE c = "A" -> "a" [] c = "B" -> "b" [] c = "N" -> "n"
      [] c = "O" -> "o" [] OTHER -> c
LowerStr(s) == [i \in 1..Len(s) |-> Lower(s[i])]

\* needle in hay, on two str
In(needle, hay) ==
    \E i \in 0..(Len(hay) - Len(needle)) :
        SubSeq(hay, i + 1, i + Len(needle)) = needle

Digit(d) ==
    CASE d = 0 -> "0" [] d = 1 -> "1" [] d = 2 -> "2" [] d = 3 -> "3"
      [] d = 4 -> "4" [] d = 5 -> "5" [] d = 6 -> "6" [] d = 7 -> "7"
      [] d = 8 -> "8" [] d = 9 -> "9"
RECURSIVE Digits(_)
Digits(n) == IF n < 10 THEN <<Digit(n)>>
             ELSE Append(Digits(n \div 10), Digit(n % 10))

\* str(v): a str is itself, None is "None", an int its decimal digits, an
\* empty list "[]". A timestamp is a numbered instant (tag "time") and
\* prints as "T" and its number. Other values do not occur in the model.
PyStr(val) ==
    CASE val.t = "str" -> val.v
      [] val.t = "null" -> <<"N", "o", "n", "e">>
      [] val.t = "num" -> Digits(val.v)
      [] val.t = "time" -> <<"T">> \o Digits(val.v)
      [] val.t = "list" /\ val.v = <<>> -> <<"[", "]">>

\* Python truth of a column value: None and "" are false.
Truthy(val) == ~(val.t = "null" \/ (val.t = "str" /\ val.v = <<>>)
                    \/ (val.t = "text" /\ val.json.t = "empty"))

\* for x in v: a list yields its elements, a str its characters, a dict its
\* keys; anything else raises TypeError.
Iterable(val) == val.t \in {"list", "str", "map"}
Iterate(val) ==
    CASE val.t = "list" -> val.v
      [] val.t = "str"  -> [i \in 1..Len(val.v) |-> JStr(<<val.v[i]>>)]
      [] val.t = "map"  -> [i \in 1..Len(val.v) |-> JStr(<<val.v[i][1]>>)]

(***************************************************************************)
(* The graph column. Its text is kept as what json.loads makes of it: the  *)
(* empty string, a text that is not JSON (truncated, say), a text whose    *)
(* brackets nest deeper than the interpreter's recursion limit (1000 by    *)
(* default; "[" repeated 100000 times, say), or the text of a JSON value.  *)
(***************************************************************************)
EmptyText == [t |-> "text", json |-> [t |-> "empty"]]
BadText == [t |-> "text", json |-> [t |-> "invalid"]]
DeepText == [t |-> "text", json |-> [t |-> "deep"]]
TextOf(doc) == [t |-> "text", json |-> doc]

Raise(exc) == [st |-> "raise", exc |-> exc]

\* json.loads(graph_str): JSONDecodeError on a text that is not JSON; the
\* decoder recurses on nested arrays and objects and raises RecursionError
\* on a text nested too deeply.
JsonLoads(graph_str) ==
    IF graph_str.json.t \in {"empty", "invalid"}
       THEN Raise("JSONDecodeError")
    ELSE IF graph_str.json.t = "deep" THEN Raise("RecursionError")
    ELSE [st |-> "ok", val |-> graph_str.json]

\* Lines 223-230 and 308-315: a falsy graph or one json.loads rejects makes
\* the loop continue with the next row.
LoadGraph(graph_str) ==
    IF ~Truthy(graph_str) THEN [st |-> "skip"]
    ELSE LET r == JsonLoads(graph_str)
         IN IF r.st = "raise" /\ r.exc \in {"JSONDecodeError", "TypeError"}
               THEN [st |-> "skip"] ELSE r

Tool == JStr(<<"t", "o", "o", "l">>)
Llm == JStr(<<"l", "l", "m">>)

\* str.lower() applied to a value: only a str has it.
HasLower(val) == val.t = "str"

\* A faulty variant, for comparison: only provider_id is tested.
ToolFieldsMatch_ProviderOnly(data, keyword_lower) ==
    LET provider_id == DictGet(data, "provider_id", EmptyStr)
    IN IF ~HasLower(provider_id) THEN "raise"
       ELSE IF In(keyword_lower, LowerStr(provider_id.v)) THEN "yes" ELSE "no"

\* Lines 243-248: keyword_lower in provider_id.lower() or
\* keyword_lower in tool_name.lower(), evaluated left to right.
ToolFieldsMatch(data, keyword_lower) ==
    LET provider_id == DictGet(data, "provider_id", EmptyStr)
        tool_name == DictGet(data, "tool_name", EmptyStr)
    IN IF ~HasLower(provider_id) THEN "raise"
       ELSE IF In(keyword_lower, LowerStr(provider_id.v)) THEN "yes"
       ELSE IF ~HasLower(tool_name) THEN "raise"
       ELSE IF In(keyword_lower, LowerStr(tool_name.v)) THEN "yes"
       ELSE "no"

\* Lines 236-254: one node of the plugin search.
ToolNode(node, keyword_lower) ==
    IF node.t # "map" THEN Raise("AttributeError")
    ELSE LET data == DictGet(node, "data", EmptyMap)
         IN IF data.t # "map" THEN Raise("AttributeError")
            ELSE IF DictGet(data, "type", EmptyStr) # Tool
                    THEN [st |-> "skip"]
            ELSE LET m == ToolFieldsMatch(data, keyword_lower)
                 IN IF m = "raise" THEN Raise("AttributeError")
                    ELSE IF m = "no" THEN [st |-> "skip"]
                    ELSE [st |-> "match", item |->
                           [node_id |-> DictGet(node, "id", EmptyStr),
                            node_title |-> DictGet(data, "title",
                                DictGet(DictGet(node, "data", EmptyMap),
                                        "title", EmptyStr)),
                            provider_id |-> DictGet(data, "provider_id", EmptyStr),
                            tool_name |-> DictGet(data, "tool_name", EmptyStr)]]

\* A faulty variant, for comparison: with a model mapping, the provider is still read from the
\* top-level provider field.
ResolveModel_TopProvider(data) ==
    IF DictGet(data, "model", JNull).t = "map"
       THEN [model |-> DictGet(DictGet(data, "model", EmptyMap), "name", EmptyStr),
             provider |-> JStr(PyStr(DictGet(data, "provider", EmptyStr)))]
       ELSE [model |-> JStr(PyStr(DictGet(data, "model", EmptyStr))),
             provider |-> JStr(PyStr(DictGet(data, "provider", EmptyStr)))]

\* Lines 328-329: model name and provider of an llm node.
ResolveModel(data) ==
    IF DictGet(data, "model", JNull).t = "map"
       THEN [model |-> DictGet(DictGet(data, "model", EmptyMap), "name", EmptyStr),
             provider |-> DictGet(DictGet(data, "model", EmptyMap),
                                  "provider", EmptyStr)]
       ELSE [model |-> JStr(PyStr(DictGet(data, "model", EmptyStr))),
             provider |-> JStr(PyStr(DictGet(data, "provider", EmptyStr)))]

\* Lines 321-339: one node of the LLM search.
LlmNode(node, keyword_lower) ==
    IF node.t # "map" THEN Raise("AttributeError")
    ELSE LET data == DictGet(node, "data", EmptyMap)
         IN IF data.t # "map" THEN Raise("AttributeError")
            ELSE IF DictGet(data, "type", EmptyStr) # Llm
                    THEN [st |-> "skip"]
            ELSE LET r == ResolveModel(data)
                     item == [node_id |-> DictGet(node, "id", EmptyStr),
                              node_title |-> DictGet(data, "title", EmptyStr),
                              model |-> r.model,
                              provider |-> r.provider]
                 IN IF ~HasLower(r.model) THEN Raise("AttributeError")
                    ELSE IF In(keyword_lower, LowerStr(r.model.v))
                            THEN [st |-> "match", item |-> item]
                    ELSE IF ~HasLower(r.provider) THEN Raise("AttributeError")
                    ELSE IF In(keyword_lower, LowerStr(r.provider.v))
                            THEN [st |-> "match", item |-> item]
                    ELSE [st |-> "skip"]

NodeOf(tool, node, keyword_lower) ==
    IF tool = "plugin" THEN ToolNode(node, keyword_lower)
                       ELSE LlmNode(node, keyword_lower)

\* The loop "for node in nodes" (lines 235-254, 320-339): the matches in
\* node order, or the first exception.
RECURSIVE ScanNodes(_, _, _, _)
ScanNodes(tool, nodes, keyword_lower, matching) ==
    IF nodes = <<>> THEN [st |-> "ok", val |-> matching]
    ELSE LET r == NodeOf(tool, Head(nodes), keyword_lower)
         IN IF r.st = "raise" THEN r
            ELSE ScanNodes(tool, Tail(nodes), keyword_lower,
                           IF r.st = "match" THEN Append(matching, r.item)
                                             ELSE matching)

\* Lines 223-262 (307-347): one row; "skip", an "entry", or an exception.
RowOf(tool, row, keyword_lower) ==
    LET g == LoadGraph(row.graph)
    IN IF g.st = "skip" THEN g
       ELSE IF g.st = "raise" THEN g
       ELSE IF g.val.t # "map" THEN Raise("AttributeError")
       ELSE LET nodes == DictGet(g.val, "nodes", JList(<<>>))
            IN IF ~Iterable(nodes) THEN Raise("TypeError")
               ELSE LET m == ScanNodes(tool, Iterate(nodes), keyword_lower, <<>>)
                    IN IF m.st = "raise" THEN m
                       ELSE IF m.val = <<>> THEN [st |-> "skip"]
                       ELSE [st |-> "entry", entry |->
                              [app_id |-> PyStr(row.app_id),
                               app_name |-> IF Truthy(row.app_name)
                                               THEN row.app_name ELSE EmptyStr,
                               matching |-> m.val,
                               updated_at |-> IF Truthy(row.updated_at)
                                                 THEN JStr(PyStr(row.updated_at))
                                                 ELSE JNull]]

\* The loop "for row in rows" of search_workflows_by_plugin (tool "plugin")
\* and search_workflows_by_llm (tool "llm"), with keyword.lower() taken
\* once before it: the call's results, or the exception that ends it.
RECURSIVE ScanRows(_, _, _, _)
ScanRows(tool, rs, keyword_lower, results) ==
    IF rs = <<>> THEN [status |-> "ok", results |-> results]
    ELSE LET r == RowOf(tool, Head(rs), keyword_lower)
         IN IF r.st = "raise"
               THEN [status |-> r.exc, results |-> <<>>]
               ELSE ScanRows(tool, Tail(rs), keyword_lower,
                             IF r.st = "entry" THEN Append(results, r.entry)
                                               ELSE results)

SearchWorkflows(tool, rs, kw) == ScanRows(tool, rs, LowerStr(kw), <<>>)

(***************************************************************************)
(* APIKeyAuthMiddleware                                                    *)
(***************************************************************************)
Bearer == <<"B", "e", "a", "r", "e", "r", " ">>

\* dict(pairs): the last pair of a name wins; .get(name, default).
HeadersGet(pairs, name, default) ==
    LET idx == {i \in 1..Len(pairs) : pairs[i][1] = name}
    IN IF idx = {} THEN default
       ELSE pairs[CHOOSE i \in idx : \A j \in idx : j <= i][2]

\* scope.get("headers", [])
ScopeHeaders(sc) == IF "headers" \in DOMAIN sc THEN sc["headers"] ELSE <<>>

ApiKeys == {<<>>, <<"k">>}
HeaderNames == {"authorization", "accept"}
HeaderValues ==
    { Encode(Bearer \o <<"k">>), Encode(Bearer \o <<"x">>),
      Encode(Bearer \o <<"k", "x">>), Encode(<<"b">> \o Tail(Bearer) \o <<"k">>),
      Encode(Bearer \o <<"k", " ">>), Encode(<<"k">>), <<>>, <<255>> }
HeaderLists ==
    UNION { [1..n -> HeaderNames \X HeaderValues] : n \in 0..MaxHeaders }
Scopes ==
    { [type |-> ty] : ty \in {"http", "websocket", "lifespan"} }
      \cup { [type |-> ty, headers |-> hs] :
                ty \in {"http", "websocket", "lifespan"}, hs \in HeaderLists }

AuthIdle ==
    /\ api_key = <<>>
    /\ scope = [type |-> "lifespan"]
    /\ authPc = "done"
    /\ forwarded = FALSE
    /\ response = "none"

AuthInit ==
    /\ api_key \in ApiKeys
    /\ scope \in Scopes
    /\ authPc = "request"
    /\ forwarded = FALSE
    /\ response = "none"

\* __call__, lines 369-371: not an http or websocket scope.
CallOtherScope ==
    /\ authPc = "request"
    /\ scope.type \notin {"http", "websocket"}
    /\ forwarded' = TRUE
    /\ authPc' = "done"
    /\ UNCHANGED <<api_key, scope, response>>
    /\ UNCHANGED notAuth

\* __call__, lines 374-376: no API key configured.
CallNoKey ==
    /\ authPc = "request"
    /\ scope.type \in {"http", "websocket"}
    /\ api_key = <<>>
    /\ forwarded' = TRUE
    /\ authPc' = "done"
    /\ UNCHANGED <<api_key, scope, response>>
    /\ UNCHANGED notAuth

\* __call__, lines 379-390: the header is decoded and compared.
CallChecked ==
    /\ authPc = "request"
    /\ scope.type \in {"http", "websocket"}
    /\ api_key # <<>>
    /\ LET raw == HeadersGet(ScopeHeaders(scope), "authorization", <<>>)
       IN IF DecodeRaises(raw)
             THEN /\ response' = "UnicodeDecodeError"
                  /\ forwarded' = FALSE
             ELSE IF Decode(raw) # Bearer \o api_key
                     THEN /\ response' = "401"
                          /\ forwarded' = FALSE
                     ELSE /\ response' = "none"
                          /\ forwarded' = TRUE
    /\ authPc' = "done"
    /\ UNCHANGED <<api_key, scope>>
    /\ UNCHANGED notAuth

AuthNext == CallOtherScope \/ CallNoKey \/ CallChecked

\* C4: with the secret configured, an http or websocket request none of whose
\* Authorization headers is exactly "Bearer <secret>" is answered 401 and not
\* forwarded; with the secret unset every request is forwarded.
Credentialed ==
    \E i \in 1..Len(ScopeHeaders(scope)) :
        /\ ScopeHeaders(scope)[i][1] = "authorization"
        /\ ScopeHeaders(scope)[i][2] = Encode(Bearer \o api_key)

C4_AuthBoundary ==
    authPc = "done" =>
        /\ (api_key # <<>> /\ scope.type \in {"http", "websocket"}
                /\ ~Credentialed) => (response = "401" /\ ~forwarded)
        /\ api_key = <<>> => (forwarded /\ response = "none")


(***************************************************************************)
(* The workflow search tools on the rows a query returned                  *)
(***************************************************************************)
Node(id, data) == JMap(<< <<"id", JStr(<<id>>)>>, <<"data", JMap(data)>> >>)

ToolA == Node("1", << <<"type", Tool>>, <<"provider_id", JStr(<<"A", "b">>)>>,
                      <<"tool_name", JStr(<<"b">>)>>, <<"title", JStr(<<"T">>)>> >>)
LlmA == Node("6", << <<"type", Llm>>,
                     <<"model", JMap(<< <<"name", JStr(<<"A", "b">>)>>,
                                        <<"provider", JStr(<<"n", "o">>)>> >>)>>,
                     <<"provider_id", JStr(<<"a">>)>>,
                     <<"title", JStr(<<"L">>)>> >>)
NoData == JMap(<< <<"id", JStr(<<"2">>)>> >>)

\* The nodes the documents of a plugin search are built from: tool nodes
\* (one without id and title, one without tool_name, one with a null
\* provider_id, one with a null tool_name), an llm node, a node without data.
PluginNodes ==
    { ToolA,
      JMap(<< <<"data", JMap(<< <<"type", Tool>>,
                                <<"provider_id", JStr(<<"b">>)>>,
                                <<"tool_name", JStr(<<"N", "o", "a">>)>> >>)>> >>),
      Node("3", << <<"type", Tool>>, <<"provider_id", JStr(<<"b">>)>> >>),
      Node("4", << <<"type", Tool>>, <<"provider_id", JNull>>,
                   <<"tool_name", JStr(<<"a">>)>> >>),
      Node("5", << <<"type", Tool>>, <<"provider_id", JStr(<<"A">>)>>,
                   <<"tool_name", JNull>> >>),
      LlmA, NoData }

\* The nodes of an LLM search: llm nodes (model a mapping, model a string,
\* no model, null model and provider, a mapping with a null name), a tool
\* node, and a node that is null.
LlmNodes ==
    { LlmA,
      Node("7", << <<"type", Llm>>, <<"model", JStr(<<"b">>)>>,
                   <<"provider", JStr(<<"A">>)>> >>),
      Node("8", << <<"type", Llm>> >>),
      Node("9", << <<"type", Llm>>, <<"model", JNull>>,
                   <<"provider", JNull>> >>),
      Node("0", << <<"type", Llm>>,
                   <<"model", JMap(<< <<"name", JNull>> >>)>> >>),
      ToolA, JNull }

NodeTemplates(tool) == IF tool = "plugin" THEN PluginNodes ELSE LlmNodes

\* Graph column values without a node: NULL, "", a text that is not JSON,
\* a text nested too deeply, and the documents {}, {"nodes": null} and [].
NodelessGraphs ==
    { JNull, EmptyText, BadText, DeepText, TextOf(EmptyMap),
      TextOf(JMap(<< <<"nodes", JNull>> >>)),
      TextOf(JList(<<>>)) }

\* Graph column values with exactly k nodes
GraphsWith(tool, k) ==
    IF k = 0 THEN NodelessGraphs
    ELSE { TextOf(JMap(<< <<"nodes", JList(ns)>> >>)) :
             ns \in [1..k -> NodeTemplates(tool)] }

\* A returned row. DISTINCT ON (w.app_id) gives each row its own app_id; the rows come
\* ordered by it. Rows of odd app_id have no app name and no timestamp.
RowAt(i, graph) ==
    [app_id |-> JNum(i),
     app_name |-> IF i % 2 = 1 THEN JNull ELSE JStr(<<"w">>),
     graph |-> graph,
     updated_at |-> IF i % 2 = 1 THEN JNull ELSE [t |-> "time", v |-> i]]

\* Number of nodes in a graph column value
NodeCount(graph) ==
    IF graph.t = "text" /\ graph.json.t = "map"
          /\ DictGet(graph.json, "nodes", JNull).t = "list"
       THEN Len(DictGet(graph.json, "nodes", JNull).v) ELSE 0

RECURSIVE TotalNodes(_)
TotalNodes(rs) ==
    IF rs = <<>> THEN 0 ELSE NodeCount(Head(rs).graph) + TotalNodes(Tail(rs))

Keywords == { <<"A">>, <<"n", "O">> }

GraphIdle ==
    /\ rows = <<>>
    /\ keyword = <<>>
    /\ gphase = <<"idle", "none">>
    /\ out = [status |-> "ok", results |-> <<>>]

GraphInit ==
    /\ rows = <<>>
    /\ keyword \in Keywords
    /\ gphase \in { <<"fetch", "plugin">>, <<"fetch", "llm">> }
    /\ out = [status |-> "ok", results |-> <<>>]

\* conn.fetch (lines 201-216, 286-301): the query's result holds one more
\* row, of at most MaxRows rows with at most MaxNodes nodes together. The
\* WHERE clause asks only that the keyword occurs somewhere in the graph
\* text (in a key the scan never reads, or after the point where the text
\* stops being JSON), so it does not constrain the document's nodes.
FetchRow ==
    /\ gphase[1] = "fetch"
    /\ Len(rows) < MaxRows
    /\ \E k \in 0..(MaxNodes - TotalNodes(rows)) :
         \E g \in GraphsWith(gphase[2], k) :
            rows' = Append(rows, RowAt(Len(rows) + 1, g))
    /\ UNCHANGED <<keyword, gphase, out>>
    /\ UNCHANGED notGraph

\* search_workflows_by_plugin, lines 218-262, on the fetched rows
SearchByPlugin ==
    /\ gphase = <<"fetch", "plugin">>
    /\ out' = SearchWorkflows("plugin", rows, keyword)
    /\ gphase' = <<"done", "plugin">>
    /\ UNCHANGED <<rows, keyword>>
    /\ UNCHANGED notGraph

\* search_workflows_by_llm, lines 303-347, on the fetched rows
SearchByLlm ==
    /\ gphase = <<"fetch", "llm">>
    /\ out' = SearchWorkflows("llm", rows, keyword)
    /\ gphase' = <<"done", "llm">>
    /\ UNCHANGED <<rows, keyword>>
    /\ UNCHANGED notGraph

GraphNext == FetchRow \/ SearchByPlugin \/ SearchByLlm

(***************************************************************************)
(* What the two searches are to report, stated on the document             *)
(***************************************************************************)
\* keyword occurs in field, letter case apart
CIContains(field, kw) ==
    \E off \in 0..(Len(field) - Len(kw)) :
        \A j \in 1..Len(kw) : Lower(field[off + j]) = Lower(kw[j])

StrContains(val, kw) == val.t = "str" /\ CIContains(val.v, kw)

HasKey(m, k) == m.t = "map" /\ \E i \in 1..Len(m.v) : m.v[i][1] = k
Field(m, k) == IF HasKey(m, k) THEN DictGet(m, k, EmptyStr) ELSE EmptyStr

\* The row's graph deserializes.
WellFormed(row) ==
    row.graph.t = "text" /\ row.graph.json.t \notin {"empty", "invalid", "deep"}

DocNodes(row) ==
    IF NodeCount(row.graph) > 0
       THEN DictGet(row.graph.json, "nodes", JNull).v ELSE <<>>

IsToolHit(node, kw) ==
    /\ Field(Field(node, "data"), "type") = Tool
    /\ \/ StrContains(Field(Field(node, "data"), "provider_id"), kw)
       \/ StrContains(Field(Field(node, "data"), "tool_name"), kw)

ToolItem(node) ==
    [node_id |-> Field(node, "id"),
     node_title |-> Field(Field(node, "data"), "title"),
     provider_id |-> Field(Field(node, "data"), "provider_id"),
     tool_name |-> Field(Field(node, "data"), "tool_name")]

\* The two shapes of an llm node: a model mapping, or flat fields coerced
\* to strings.
ModelOf(data) ==
    IF Field(data, "model").t = "map"
       THEN Field(Field(data, "model"), "name")
       ELSE IF HasKey(data, "model") THEN JStr(PyStr(Field(data, "model")))
                                     ELSE EmptyStr
ProviderOf(data) ==
    IF Field(data, "model").t = "map"
       THEN Field(Field(data, "model"), "provider")
       ELSE IF HasKey(data, "provider")
               THEN JStr(PyStr(Field(data, "provider"))) ELSE EmptyStr

IsLlmHit(node, kw) ==
    /\ Field(Field(node, "data"), "type") = Llm
    /\ \/ StrContains(ModelOf(Field(node, "data")), kw)
       \/ StrContains(ProviderOf(Field(node, "data")), kw)

LlmItem(node) ==
    [node_id |-> Field(node, "id"),
     node_title |-> Field(Field(node, "data"), "title"),
     model |-> ModelOf(Field(node, "data")),
     provider |-> ProviderOf(Field(node, "data"))]

ExpectedTools(row, kw) == SelectSeq(DocNodes(row), LAMBDA n : IsToolHit(n, kw))
ExpectedLlms(row, kw) == SelectSeq(DocNodes(row), LAMBDA n : IsLlmHit(n, kw))

\* C5: when every returned row has a NULL graph or one that deserializes,
\* the search completes without an exception, whatever is missing or
\* misshapen in the documents.
C5_NoFieldError ==
    (gphase[1] = "done"
        /\ \A i \in 1..Len(rows) : rows[i].graph = JNull \/ WellFormed(rows[i]))
    => out.status = "ok"

\* C6: a row whose graph is NULL, empty or not JSON raises nothing and
\* yields no entry, and the call's outcome is the one the other rows of the
\* batch give without it.
C6_MalformedIsolated ==
    gphase[1] = "done" =>
        /\ out = SearchWorkflows(gphase[2], SelectSeq(rows, WellFormed), keyword)
        /\ \A i \in 1..Len(rows) :
              ~WellFormed(rows[i]) =>
                  \A j \in 1..Len(out.results) :
                      out.results[j].app_id # PyStr(rows[i].app_id)

\* C8: when the plugin search completes, its results are, in row order, the
\* rows having a tool node whose provider_id or tool_name contains the
\* keyword (letter case apart), each with exactly those nodes in document
\* order.
C8_ToolMatches ==
    (gphase = <<"done", "plugin">> /\ out.status = "ok") =>
        LET hit == SelectSeq(rows, LAMBDA r : ExpectedTools(r, keyword) # <<>>)
        IN /\ Len(out.results) = Len(hit)
           /\ \A i \in 1..Len(hit) :
                 /\ out.results[i].app_id = PyStr(hit[i].app_id)
                 /\ Len(out.results[i].matching) =
                        Len(ExpectedTools(hit[i], keyword))
                 /\ \A j \in 1..Len(ExpectedTools(hit[i], keyword)) :
                       out.results[i].matching[j] =
                           ToolItem(ExpectedTools(hit[i], keyword)[j])

C8_Witness ==
    /\ gphase = <<"done", "plugin">>
    /\ out.status = "ok"
    /\ \E i \in 1..Len(rows) :
          /\ NodeCount(rows[i].graph) >= 2
          /\ Len(ExpectedTools(rows[i], keyword)) = 1
          /\ ~StrContains(ExpectedTools(rows[i], keyword)[1].v[1][2].v[2][2],
                          keyword)

AppIds == {1, 2}
Timestamps == {1, 2}
Texts == { JStr(<<"b", "a">>), JStr(<<"N", "o">>) }

\* s LIKE p, letter case apart: % stands for any run of characters, _ for
\* any one character.
RECURSIVE Like(_, _)
Like(str, pat) ==
    IF pat = <<>> THEN str = <<>>
    ELSE IF Head(pat) = "%"
            THEN Like(str, Tail(pat)) \/ (str # <<>> /\ Like(Tail(str), pat))
    ELSE IF str = <<>> THEN FALSE
    ELSE /\ (Head(pat) = "_" \/ Lower(Head(pat)) = Lower(Head(str)))
         /\ Like(Tail(str), Tail(pat))

\* value ILIKE pattern as a WHERE condition: a NULL value is not selected.
ILike(val, pattern) == val.t = "str" /\ Like(val.v, pattern)

\* pattern = f"%{keyword}%" (lines 117, 198, 283)
Pattern(kw) == <<"%">> \o kw \o <<"%">>

\* The column each tool's workflow query filters on (lines 163, 211, 296)
FilterColumn(tool) ==
    IF tool = "search_dify_credentials" THEN "environment_variables"
                                        ELSE "graph"

\* The rows the WHERE clause selects
Selected(table, col, kw) ==
    {i \in 1..Len(table) : ILike(table[i][col], Pattern(kw))}

\* A faulty variant, for comparison: ORDER BY w.app_id, w.updated_at (ascending).
FirstOfApp_Ascending(table, sel, a) ==
    {i \in sel : /\ table[i].app_id = a
                 /\ \A j \in sel : table[j].app_id = a
                        => table[i].updated_at <= table[j].updated_at}

\* DISTINCT ON (w.app_id) with ORDER BY w.app_id, w.updated_at DESC keeps,
\* of the selected rows of application a, the first in that order: one of
\* the greatest updated_at (any of them when several share it).
FirstOfApp(table, sel, a) ==
    {i \in sel : /\ table[i].app_id = a
                 /\ \A j \in sel : table[j].app_id = a
                        => table[j].updated_at <= table[i].updated_at}

RECURSIVE Ascending(_)
Ascending(S) ==
    IF S = {} THEN <<>>
    ELSE LET m == CHOOSE x \in S : \A y \in S : x <= y
         IN <<m>> \o Ascending(S \ {m})

Take(seq, n) == SubSeq(seq, 1, IF Len(seq) < n THEN Len(seq) ELSE n)

QueryIdle ==
    /\ workflows = <<>>
    /\ qkeyword = <<>>
    /\ qphase = "idle"
    /\ qrows = <<>>

QueryInit ==
    /\ workflows = <<>>
    /\ qkeyword \in Keywords
    /\ qphase = "table"
    /\ qrows = <<>>

\* The workflows table holds one more workflow version. The table is a bag
\* of rows (the query's ORDER BY decides the order of its result); it is
\* listed here by application id, an application's rows in any order.
InsertWorkflow ==
    /\ qphase = "table"
    /\ Len(workflows) < MaxWorkflows
    /\ \E a \in AppIds, ts \in Timestamps, env \in Texts, g \in Texts :
          /\ \A i \in 1..Len(workflows) : workflows[i].app_id <= a
          /\ workflows' = Append(workflows,
                [app_id |-> a, updated_at |-> ts,
                 environment_variables |-> env, graph |-> g])
    /\ UNCHANGED <<qkeyword, qphase, qrows>>
    /\ UNCHANGED notQuery

\* conn.fetch of a tool's workflow query (lines 157-168, 201-216, 286-301)
WorkflowQuery(tool) ==
    /\ qphase = "table"
    /\ LET sel == Selected(workflows, FilterColumn(tool), qkeyword)
           apps == Ascending({workflows[i].app_id : i \in sel})
       IN \E pick \in [1..Len(apps) -> 1..Len(workflows)] :
            /\ \A n \in 1..Len(apps) :
                  pick[n] \in FirstOfApp(workflows, sel, apps[n])
            /\ qrows' = Take([n \in 1..Len(apps) |-> workflows[pick[n]]],
                             Limit)
    /\ qphase' = tool
    /\ UNCHANGED <<workflows, qkeyword>>
    /\ UNCHANGED notQuery

QueryNext ==
    \/ InsertWorkflow
    \/ WorkflowQuery("search_dify_credentials")
    \/ WorkflowQuery("search_workflows_by_plugin")
    \/ WorkflowQuery("search_workflows_by_llm")

QueryDone == qphase \notin {"table", "idle"}

\* C7 as stated: at most one row per application, and the row reported for
\* an application is its most recently updated workflow row.
C7_LatestOfApplication ==
    QueryDone =>
        /\ \A m, n \in 1..Len(qrows) :
              qrows[m].app_id = qrows[n].app_id => m = n
        /\ \A n \in 1..Len(qrows) : \A i \in 1..Len(workflows) :
              workflows[i].app_id = qrows[n].app_id
                  => workflows[i].updated_at <= qrows[n].updated_at

\* C7 amended: ... is its most recently updated row among those the keyword
\* filter selects; every application with a selected row is reported while
\* the limit is not reached.
C7_LatestOfSelected ==
    QueryDone =>
        LET sel == Selected(workflows, FilterColumn(qphase), qkeyword)
        IN /\ \A m, n \in 1..Len(qrows) :
                 qrows[m].app_id = qrows[n].app_id => m = n
           /\ \A n \in 1..Len(qrows) :
                 /\ \E i \in sel : workflows[i] = qrows[n]
                 /\ \A i \in sel :
                       workflows[i].app_id = qrows[n].app_id
                           => workflows[i].updated_at <= qrows[n].updated_at
           /\ Len(qrows) < Limit =>
                 \A i \in sel : \E n \in 1..Len(qrows) :
                     qrows[n].app_id = workflows[i].app_id

C7_Witness ==
    /\ QueryDone
    /\ Len(qrows) = 2
    /\ \E n \in 1..Len(qrows) : \E i \in 1..Len(workflows) :
          /\ workflows[i].app_id = qrows[n].app_id
          /\ i \in Selected(workflows, FilterColumn(qphase), qkeyword)
          /\ workflows[i].updated_at < qrows[n].updated_at

(***************************************************************************)
(* _format_rows                                                            *)
(***************************************************************************)
\* A faulty variant, for comparison: str() is applied to None as well.
FormatValue_StrNone(val) ==
    IF val.t \in {"map", "list"} THEN val ELSE JStr(PyStr(val))

\* Lines 98-102: the value stored for a column.
FormatValue(val) ==
    IF val.t \in {"map", "list"} THEN val
    ELSE IF val.t # "null" THEN JStr(PyStr(val)) ELSE JNull

\* Lines 96-102: item = {}; for col in columns: item[col] = ...
RECURSIVE FormatRow(_, _, _)
FormatRow(row, cols, item) ==
    IF cols = <<>> THEN item
    ELSE FormatRow(row, Tail(cols),
                   DictSet(item, Head(cols), FormatValue(row[Head(cols)])))

\* Lines 94-104
RECURSIVE FormatRows(_, _, _)
FormatRows(rs, cols, results) ==
    IF rs = <<>> THEN results
    ELSE FormatRows(Tail(rs), cols,
                    Append(results, JMap(FormatRow(Head(rs), cols, <<>>))))

\* The columns of the records and the values a column holds: NULL, a text,
\* an integer, a timestamp, a list and a mapping.
RecordColumns == {"app_id", "environment_variables"}
ColumnValues ==
    { JNull, JStr(<<"b", "a">>), JNum(12), [t |-> "time", v |-> 3],
      JList(<<JNum(1)>>), JMap(<< <<"k", JNull>> >>) }
Records == [RecordColumns -> ColumnValues]

\* The projections the tools pass: distinct columns of the records.
Projections ==
    { c \in UNION { [1..n -> RecordColumns] : n \in 0..Cardinality(RecordColumns) } :
        \A i, j \in 1..Len(c) : c[i] = c[j] => i = j }

FmtIdle ==
    /\ frows = <<>>
    /\ columns = <<>>
    /\ fphase = "idle"
    /\ formatted = <<>>

FmtInit ==
    /\ frows \in UNION { [1..n -> Records] : n \in 0..MaxRows }
    /\ columns \in Projections
    /\ fphase = "call"
    /\ formatted = <<>>

FormatCall ==
    /\ fphase = "call"
    /\ formatted' = FormatRows(frows, columns, <<>>)
    /\ fphase' = "done"
    /\ UNCHANGED <<frows, columns>>
    /\ UNCHANGED notFmt

FmtNext == FormatCall

\* C10: one dictionary per row in row order; its keys are the projection in
\* order; NULL stays null, a list or mapping is passed on unchanged, any
\* other value becomes its string.
C10_RowNormalizer ==
    fphase = "done" =>
        /\ Len(formatted) = Len(frows)
        /\ \A i \in 1..Len(frows) :
              /\ formatted[i].t = "map"
              /\ Len(formatted[i].v) = Len(columns)
              /\ \A j \in 1..Len(columns) :
                    LET src == frows[i][columns[j]]
                        got == formatted[i].v[j]
                    IN /\ got[1] = columns[j]
                       /\ src.t = "null" => got[2] = JNull
                       /\ src.t \in {"map", "list"} => got[2] = src
                       /\ src.t \notin {"null", "map", "list"}
                             => got[2] = JStr(PyStr(src))

C10_Witness ==
    /\ fphase = "done"
    /\ Len(columns) = 2
    /\ \E i \in 1..Len(formatted) :
          /\ formatted[i].v[1][2] = JNull
          /\ formatted[i].v[2][2] = JStr(<<"1", "2">>)
    /\ \E i \in 1..Len(formatted) : formatted[i].v[1][2].t = "map"

InitPool == PoolInit /\ AuthIdle /\ GraphIdle /\ QueryIdle /\ FmtIdle
InitAuth == AuthInit /\ PoolInit /\ GraphIdle /\ QueryIdle /\ FmtIdle
InitGraph == GraphInit /\ PoolInit /\ AuthIdle /\ QueryIdle /\ FmtIdle
InitQuery == QueryInit /\ PoolInit /\ AuthIdle /\ GraphIdle /\ FmtIdle
InitFormat == FmtInit /\ PoolInit /\ AuthIdle /\ GraphIdle /\ QueryIdle

SpecPool == InitPool /\ [][PoolNext]_vars
SpecAuth == InitAuth /\ [][AuthNext]_vars
SpecGraph == InitGraph /\ [][GraphNext]_vars
SpecQuery == InitQuery /\ [][QueryNext]_vars
SpecFormat == InitFormat /\ [][FmtNext]_vars

====
